---------------------------- MODULE Spec2Model ----------------------------
(***************************************************************************)
(* Model of files/restic-backup-wrapper.py: one run of the wrapper, from   *)
(* argument parsing to sys.exit, with the child process, its two pipes and *)
(* the SMTP transport as the environment.                                  *)
(*                                                                         *)
(* Text is modelled as a sequence of symbols.  A symbol is one character   *)
(* that the code looks at (" ", "=", "#", "@", ".", ",", a digit, a sign,  *)
(* "\n", "\r") or a word: a run of characters none of which the code       *)
(* inspects one by one ("RESTIC_EMAIL_TO", "true", "host").                *)
(***************************************************************************)
EXTENDS Integers, Sequences, FiniteSets, TLC

(***************************************************************************)
(* Bounds of the model.                                                    *)
(***************************************************************************)
\* Longest environment file drawn by InitEnv, in lines.
MaxEnvLines == 3
\* Most lines the child writes to one channel.
MaxLines == 2
\* Lines an OS pipe holds before the child's write blocks.
PipeCap == 1

(***************************************************************************)
(* str methods used by the wrapper.                                        *)
(***************************************************************************)
None == << >>

Some(x) == << x >>

Whitespace == {" ", "\t", "\n", "\r"}

Digits == {"0", "1", "2", "3", "4", "5", "6", "7", "8", "9"}

RECURSIVE LStrip(_)
LStrip(s) ==
    IF s # << >> /\ Head(s) \in Whitespace THEN LStrip(Tail(s)) ELSE s

RECURSIVE RStrip(_)
RStrip(s) ==
    IF s # << >> /\ s[Len(s)] \in Whitespace
    THEN RStrip(SubSeq(s, 1, Len(s) - 1))
    ELSE s

\* s.strip()
Strip(s) == RStrip(LStrip(s))

\* c in s
Contains(s, c) == \E i \in 1..Len(s) : s[i] = c

\* s.startswith(c)
StartsWith(s, c) == s # << >> /\ Head(s) = c

\* index of the first c in s (0 when there is none)
FirstIndex(s, c) ==
    IF Contains(s, c)
    THEN CHOOSE i \in 1..Len(s) : s[i] = c /\ \A j \in 1..(i - 1) : s[j] # c
    ELSE 0

\* s.split(c, 1) for an s that holds c
SplitFirst(s, c) ==
    LET i == FirstIndex(s, c)
    IN  << SubSeq(s, 1, i - 1), SubSeq(s, i + 1, Len(s)) >>

\* s.split(c)
RECURSIVE Split(_, _)
Split(s, c) ==
    IF Contains(s, c)
    THEN << SplitFirst(s, c)[1] >> \o Split(SplitFirst(s, c)[2], c)
    ELSE << s >>

LowerSym(c) ==
    CASE c \in {"TRUE", "True"} -> "true"
      [] c \in {"FALSE", "False"} -> "false"
      [] OTHER -> c

\* s.lower()
Lower(s) == [i \in 1..Len(s) |-> LowerSym(s[i])]

DigitVal(c) ==
    CASE c = "0" -> 0 [] c = "1" -> 1 [] c = "2" -> 2 [] c = "3" -> 3
      [] c = "4" -> 4 [] c = "5" -> 5 [] c = "6" -> 6 [] c = "7" -> 7
      [] c = "8" -> 8 [] c = "9" -> 9

RECURSIVE DigitsVal(_)
DigitsVal(s) ==
    IF s = << >> THEN 0
    ELSE 10 * DigitsVal(SubSeq(s, 1, Len(s) - 1)) + DigitVal(s[Len(s)])

AllDigits(s) == s # << >> /\ \A i \in 1..Len(s) : s[i] \in Digits

\* int(s): None when it raises ValueError, Some(n) otherwise
ParseInt(s) ==
    LET t == Strip(s)
        signed == t # << >> /\ Head(t) \in {"+", "-"}
        body == IF signed THEN Tail(t) ELSE t
    IN  IF ~AllDigits(body) THEN None
        ELSE IF signed /\ Head(t) = "-" THEN Some(0 - DigitsVal(body))
        ELSE Some(DigitsVal(body))

(***************************************************************************)
(* dict                                                                    *)
(***************************************************************************)
EmptyDict == [k \in {} |-> << >>]

\* d[k] = v
DictSet(d, k, v) == [x \in (DOMAIN d) \cup {k} |-> IF x = k THEN v ELSE d[x]]

\* d.get(k, "")
DictGet(d, k) == IF k \in DOMAIN d THEN d[k] ELSE << >>

(***************************************************************************)
(* load_environment_file.  An environment file is missing (open raises),   *)
(* undecodable (reading it raises) or a sequence of lines.  The result is  *)
(* None when the function ends in sys.exit(1), Some(env_vars) otherwise.   *)
(***************************************************************************)
\* IsAssignment without the test for a comment
IsAssignmentOrComment(line) == line # << >> /\ Contains(line, "=")

\* the test of line 72 on a stripped line
IsAssignment(line) ==
    line # << >> /\ Contains(line, "=") /\ ~StartsWith(line, "#")

RECURSIVE LoadLines(_, _)
LoadLines(lines, env_vars) ==
    IF lines = << >> THEN env_vars
    ELSE LET line == Strip(Head(lines))
         IN  IF IsAssignment(line)
             THEN LET kv == SplitFirst(line, "=")
                  IN  LoadLines(Tail(lines),
                                DictSet(env_vars, Strip(kv[1]), Strip(kv[2])))
             ELSE LoadLines(Tail(lines), env_vars)

\* load_environment_file that swallows the exception and returns what it has
load_environment_file_lenient(env_file) ==
    Some(LoadLines(env_file.lines, EmptyDict))

load_environment_file(env_file) ==
    IF env_file.state # "ok" THEN None
    ELSE Some(LoadLines(env_file.lines, EmptyDict))

(***************************************************************************)
(* get_email_config.  The result is [kind |-> "disabled"] (return None),   *)
(* [kind |-> "exit", errors |-> ...] (sys.exit(1) after printing the       *)
(* listing) or [kind |-> "config", config |-> ...].                        *)
(***************************************************************************)
K_ENABLED == << "RESTIC_EMAIL_NOTIFICATIONS_ENABLED" >>
K_TO == << "RESTIC_EMAIL_TO" >>
K_FROM == << "RESTIC_EMAIL_FROM" >>
K_SERVER == << "RESTIC_EMAIL_SMTP_SERVER" >>
K_PORT == << "RESTIC_EMAIL_SMTP_PORT" >>
K_USER == << "RESTIC_EMAIL_SMTP_USER" >>
K_PASSWORD == << "RESTIC_EMAIL_SMTP_PASSWORD" >>
K_TLS == << "RESTIC_EMAIL_SMTP_TLS" >>

MaxPort == 65535

Err(field, why) == [field |-> field, why |-> why]

\* the test of lines 100 and 109
BadAddress(email) ==
    email = << >> \/ ~Contains(email, "@") \/ ~Contains(email, ".")

StripAll(parts) == [i \in 1..Len(parts) |-> Strip(parts[i])]

RECURSIVE AddressErrors(_)
AddressErrors(email_list) ==
    IF email_list = << >> THEN << >>
    ELSE (IF BadAddress(Head(email_list))
          THEN << Err(K_TO, "invalid") >> ELSE << >>)
         \o AddressErrors(Tail(email_list))

CheckTo(env_vars) ==
    LET to_emails == Strip(DictGet(env_vars, K_TO))
    IN  IF to_emails = << >> THEN << Err(K_TO, "required") >>
        ELSE AddressErrors(StripAll(Split(to_emails, ",")))

CheckFrom(env_vars) ==
    LET from_email == Strip(DictGet(env_vars, K_FROM))
    IN  IF from_email = << >> THEN << Err(K_FROM, "required") >>
        ELSE IF ~Contains(from_email, "@") \/ ~Contains(from_email, ".")
        THEN << Err(K_FROM, "invalid") >>
        ELSE << >>

CheckRequired(env_vars, key) ==
    IF Strip(DictGet(env_vars, key)) = << >>
    THEN << Err(key, "required") >> ELSE << >>

CheckPort(env_vars) ==
    LET smtp_port_str == Strip(DictGet(env_vars, K_PORT))
        smtp_port == ParseInt(smtp_port_str)
    IN  IF smtp_port_str = << >> THEN << Err(K_PORT, "required") >>
        ELSE IF smtp_port = None THEN << Err(K_PORT, "invalid") >>
        ELSE IF smtp_port[1] < 1 \/ smtp_port[1] > MaxPort
        THEN << Err(K_PORT, "invalid") >>
        ELSE << >>

CheckTls(env_vars) ==
    LET smtp_tls == Strip(DictGet(env_vars, K_TLS))
    IN  IF smtp_tls = << >> THEN << Err(K_TLS, "required") >>
        ELSE IF Lower(smtp_tls) \notin {<< "true" >>, << "false" >>}
        THEN << Err(K_TLS, "invalid") >>
        ELSE << >>

\* validation that stops at the first check that fails
FirstErrorOnly(env_vars) ==
    LET checks == << CheckTo(env_vars), CheckFrom(env_vars),
                     CheckRequired(env_vars, K_SERVER), CheckPort(env_vars),
                     CheckRequired(env_vars, K_USER),
                     CheckRequired(env_vars, K_PASSWORD), CheckTls(env_vars) >>
        failed == { i \in 1..Len(checks) : checks[i] # << >> }
    IN  IF failed = {} THEN << >>
        ELSE checks[CHOOSE i \in failed : \A j \in failed : i <= j]

\* lines 88-160: every check runs, each appending to errors
ValidationErrors(env_vars) ==
    CheckTo(env_vars) \o CheckFrom(env_vars)
        \o CheckRequired(env_vars, K_SERVER) \o CheckPort(env_vars)
        \o CheckRequired(env_vars, K_USER)
        \o CheckRequired(env_vars, K_PASSWORD) \o CheckTls(env_vars)

\* lines 171-179
BuildConfig(env_vars) ==
    [to_emails |-> StripAll(Split(Strip(DictGet(env_vars, K_TO)), ",")),
     from_email |-> Strip(DictGet(env_vars, K_FROM)),
     smtp_server |-> Strip(DictGet(env_vars, K_SERVER)),
     smtp_port |-> ParseInt(Strip(DictGet(env_vars, K_PORT)))[1],
     smtp_user |-> Strip(DictGet(env_vars, K_USER)),
     smtp_password |-> Strip(DictGet(env_vars, K_PASSWORD)),
     use_tls |-> (Lower(Strip(DictGet(env_vars, K_TLS))) = << "true" >>)]

\* the test of line 84
NotificationsEnabled(env_vars) ==
    Lower(DictGet(env_vars, K_ENABLED)) = << "true" >>

get_email_config(env_vars) ==
    IF ~NotificationsEnabled(env_vars)
    THEN [kind |-> "disabled", errors |-> << >>, config |-> None]
    ELSE IF ValidationErrors(env_vars) # << >>
    THEN [kind |-> "exit", errors |-> ValidationErrors(env_vars),
          config |-> None]
    ELSE [kind |-> "config", errors |-> << >>,
          config |-> Some(BuildConfig(env_vars))]

(***************************************************************************)
(* subprocess.run(cmd, capture_output=True, text=True): what the child     *)
(* writes and how communicate() turns the captured bytes into text.        *)
(***************************************************************************)
\* a byte that is not valid in the locale's encoding
BadByte == "0xff"

\* the lines a child may write, as bytes
ChildLines ==
    { << "a", "\n" >>, << "b", "\r", "\n" >>, << BadByte, "\n" >> }

ExitCodes == {0, 1, 3}

Channels == {"stdout", "stderr"}

RECURSIVE SeqsUpTo(_, _)
SeqsUpTo(S, n) ==
    IF n = 0 THEN { << >> }
    ELSE LET shorter == SeqsUpTo(S, n - 1)
         IN  shorter \cup
             { Append(q, x) : q \in { r \in shorter : Len(r) = n - 1 }, x \in S }

RECURSIVE Flatten(_)
Flatten(chunks) ==
    IF chunks = << >> THEN << >> ELSE Head(chunks) \o Flatten(Tail(chunks))

\* Popen._translate_newlines: "\r\n" and "\r" become "\n"
RECURSIVE TranslateNewlines(_)
TranslateNewlines(data) ==
    IF data = << >> THEN << >>
    ELSE IF Head(data) = "\r"
    THEN IF Len(data) > 1 /\ data[2] = "\n"
         THEN << "\n" >> \o TranslateNewlines(Tail(Tail(data)))
         ELSE << "\n" >> \o TranslateNewlines(Tail(data))
    ELSE << Head(data) >> \o TranslateNewlines(Tail(data))

\* data.decode(encoding, "strict") raises UnicodeDecodeError
Undecodable(data) == Contains(data, BadByte)

\* stderr is read only once stdout has reached end-of-file
CanReadSequential(pipe, registered, ch) ==
    /\ registered[ch]
    /\ pipe[ch] # << >>
    /\ ch = "stderr" => ~registered["stdout"]

\* the selector reports the pipe readable: it holds data
CanRead(pipe, registered, ch) == registered[ch] /\ pipe[ch] # << >>

\* the selector reports end-of-file: empty and the write end is closed
AtEof(pipe, registered, child, ch) ==
    registered[ch] /\ pipe[ch] = << >> /\ child.state # "running"

MsgUsage == << "Usage: restic-backup-wrapper.py", "\n" >>
MsgEnvError == << "Error loading environment file", "\n" >>
MsgConfigErrors == << "Email notification configuration errors:", "\n" >>
MsgStarting == << "Starting restic backup", "\n" >>
MsgExecuting == << "Executing:", "\n" >>
MsgCompleted == << "Backup completed with exit code:", "\n" >>
MsgFinished == << "Backup finished at", "\n" >>
MsgLaunchFailed == << "Failed to execute backup command:" >>
MsgSendFailed == << "Failed to send email:", "\n" >>
MsgNotSent == << "ERROR: Failed to send email notification", "\n" >>

\* the SMTPS port of line 42
SmtpsPort == 465

\* lines 42-57: how send_email connects
TransportMode(config) ==
    IF config.use_tls /\ config.smtp_port = SmtpsPort THEN "SMTP_SSL"
    ELSE IF config.use_tls THEN "STARTTLS"
    ELSE "PLAIN"

\* notifies only on the exit code of an internal failure
ShouldNotifyOnOne(exit_code, email_config) ==
    exit_code = 1 /\ email_config # None

\* line 227
ShouldNotify(exit_code, email_config) ==
    ~(exit_code = 0 \/ email_config = None)

\* what run_backup returns from line 217: the code and stdout + stderr
ReturnedResult(returncode, out, err) ==
    [exit_code |-> returncode, output |-> out \o err]

\* sys.exit(n): the status the operating system keeps
ExitStatus(n) == n % 256

(***************************************************************************)
(* State of one run.                                                       *)
(***************************************************************************)
VARIABLES
    pc,            \* where main() is
    argc,          \* len(sys.argv) - 1
    restic_binary, \* "ok", or "missing" when Popen raises
    env_file,      \* <config_dir>/<backup_name>.env
    env_vars,      \* the loaded map
    cfg_errors,    \* the listing get_email_config printed
    email_config,  \* None or Some(config)
    child,         \* the child process: state, lines still to write, code
    produced,      \* the lines the child has written, per channel
    pipe,          \* the lines in each OS pipe
    registered,    \* the pipes communicate() still reads
    acc,           \* communicate()'s captured chunks, per channel
    wstdout,       \* what the wrapper wrote to its own stdout
    wstderr,       \* what the wrapper wrote to its own stderr
    result,        \* None or Some([exit_code, output]) of run_backup
    mail,          \* the notification: state, attempts, mode, body
    wrapper_exit   \* None or Some(status) once the wrapper has exited

vars ==
    << pc, argc, restic_binary, env_file, env_vars, cfg_errors, email_config,
       child, produced, pipe, registered, acc, wstdout, wstderr, result, mail,
       wrapper_exit >>

procVars == << child, produced, pipe, registered, acc >>

Assign(key, value) == key \o << "=" >> \o value

Addr == << "a", "@", "b", ".", "c" >>

ValidLines(port, tls) ==
    << Assign(K_ENABLED, << "true" >>), Assign(K_TO, Addr \o << "," >> \o Addr),
       Assign(K_FROM, Addr), Assign(K_SERVER, << "host" >>),
       Assign(K_PORT, port), Assign(K_USER, << "user" >>),
       Assign(K_PASSWORD, << "secret" >>), Assign(K_TLS, tls) >>

File(lines) == [state |-> "ok", lines |-> lines]

FileMissing == [state |-> "missing", lines |-> << >>]

FileUndecodable == [state |-> "undecodable", lines |-> << >>]

\* no enable flag, and a line that is no assignment
FileJunk ==
    File(<< << "#", " ", "backup" >>, << "JUNK" >>,
            Assign(<< "RESTIC_REPOSITORY" >>, << "/r" >>) >>)

\* enable flag false, the e-mail fields blank or malformed
FileDisabled ==
    File(<< Assign(K_ENABLED, << "false" >>), Assign(K_TO, << "nobody" >>),
            Assign(K_PORT, << "x" >>) >>)

FileValidSsl == File(ValidLines(<< "4", "6", "5" >>, << "true" >>))

FileValidPlain == File(ValidLines(<< "2", "5" >>, << "False" >>))

\* enabled, port out of range and TLS flag not a boolean
FileInvalid == File(ValidLines(<< "0" >>, << "yes" >>))

MainEnvFiles ==
    { FileMissing, FileUndecodable, FileJunk, FileDisabled, FileValidSsl,
      FileValidPlain, FileInvalid }

NoChild ==
    [state |-> "none", todo |-> [ch \in Channels |-> << >>], code |-> 0]

NoMail == [state |-> "not_sent", attempts |-> 0, mode |-> "", body |-> None]

Idle ==
    /\ env_vars = EmptyDict
    /\ cfg_errors = << >>
    /\ email_config = None
    /\ child = NoChild
    /\ produced = [ch \in Channels |-> << >>]
    /\ pipe = [ch \in Channels |-> << >>]
    /\ registered = [ch \in Channels |-> FALSE]
    /\ acc = [ch \in Channels |-> << >>]
    /\ wstdout = << >>
    /\ wstderr = << >>
    /\ result = None
    /\ mail = NoMail
    /\ wrapper_exit = None

Init ==
    /\ pc = "start"
    /\ argc \in {3, 4}
    /\ restic_binary \in {"ok", "missing"}
    /\ env_file \in MainEnvFiles
    /\ Idle

(***************************************************************************)
(* main, lines 265-281                                                     *)
(***************************************************************************)
Exit1 == pc' = "exited" /\ wrapper_exit' = Some(ExitStatus(1))

CheckArgs ==
    /\ pc = "start"
    /\ IF argc # 4
       THEN /\ wstdout' = Append(wstdout, MsgUsage)
            /\ Exit1
       ELSE /\ pc' = "args_ok"
            /\ UNCHANGED << wstdout, wrapper_exit >>
    /\ UNCHANGED << argc, restic_binary, env_file, env_vars, cfg_errors,
                    email_config, procVars, wstderr, result, mail >>

LoadEnv ==
    /\ pc = "args_ok"
    /\ LET loaded == load_environment_file(env_file)
       IN  IF loaded = None
           THEN /\ wstderr' = Append(wstderr, MsgEnvError)
                /\ Exit1
                /\ UNCHANGED env_vars
           ELSE /\ env_vars' = loaded[1]
                /\ pc' = "loaded"
                /\ UNCHANGED << wstderr, wrapper_exit >>
    /\ UNCHANGED << argc, restic_binary, env_file, cfg_errors, email_config,
                    procVars, wstdout, result, mail >>

GetEmailConfig ==
    /\ pc = "loaded"
    /\ LET r == get_email_config(env_vars)
       IN  IF r.kind = "exit"
           THEN /\ cfg_errors' = r.errors
                /\ wstderr' = Append(wstderr, MsgConfigErrors)
                /\ Exit1
                /\ UNCHANGED email_config
           ELSE /\ email_config' = r.config
                /\ pc' = "configured"
                /\ UNCHANGED << cfg_errors, wstderr, wrapper_exit >>
    /\ UNCHANGED << argc, restic_binary, env_file, env_vars, procVars, wstdout,
                    result, mail >>

(***************************************************************************)
(* run_backup, lines 204-222                                               *)
(***************************************************************************)
\* Popen raises and nothing catches it: the interpreter exits 1
LaunchCrashes ==
    /\ pc = "configured"
    /\ restic_binary = "missing"
    /\ wstdout' = wstdout \o << MsgStarting, MsgExecuting >>
    /\ Exit1
    /\ UNCHANGED << argc, restic_binary, env_file, env_vars, cfg_errors,
                    email_config, procVars, wstderr, result, mail >>

\* Popen raises: lines 219-222
LaunchFails ==
    /\ pc = "configured"
    /\ restic_binary = "missing"
    /\ wstdout' = wstdout \o << MsgStarting, MsgExecuting, MsgLaunchFailed >>
    /\ result' = Some([exit_code |-> 1, output |-> MsgLaunchFailed])
    /\ pc' = "ran"
    /\ UNCHANGED << argc, restic_binary, env_file, env_vars, cfg_errors,
                    email_config, procVars, wstderr, mail, wrapper_exit >>

\* Popen starts the child with both outputs redirected to pipes
Launch ==
    /\ pc = "configured"
    /\ restic_binary = "ok"
    /\ \E out \in SeqsUpTo(ChildLines, MaxLines),
          err \in SeqsUpTo(ChildLines, MaxLines), code \in ExitCodes :
            child' = [state |-> "running",
                      todo |-> [ch \in Channels |->
                                    IF ch = "stdout" THEN out ELSE err],
                      code |-> code]
    /\ registered' = [ch \in Channels |-> TRUE]
    /\ wstdout' = wstdout \o << MsgStarting, MsgExecuting >>
    /\ pc' = "communicate"
    /\ UNCHANGED << argc, restic_binary, env_file, env_vars, cfg_errors,
                    email_config, produced, pipe, acc, wstderr, result, mail,
                    wrapper_exit >>

\* the child writes its next line to a pipe that has room
ChildWrite(ch) ==
    /\ child.state = "running"
    /\ child.todo[ch] # << >>
    /\ Len(pipe[ch]) < PipeCap
    /\ pipe' = [pipe EXCEPT ![ch] = Append(@, Head(child.todo[ch]))]
    /\ produced' = [produced EXCEPT ![ch] = Append(@, Head(child.todo[ch]))]
    /\ child' = [child EXCEPT !.todo[ch] = Tail(@)]
    /\ UNCHANGED << pc, argc, restic_binary, env_file, env_vars, cfg_errors,
                    email_config, registered, acc, wstdout, wstderr, result,
                    mail, wrapper_exit >>

\* the child has written everything and exits, closing its ends of the pipes
ChildExit ==
    /\ child.state = "running"
    /\ \A ch \in Channels : child.todo[ch] = << >>
    /\ child' = [child EXCEPT !.state = "exited"]
    /\ UNCHANGED << pc, argc, restic_binary, env_file, env_vars, cfg_errors,
                    email_config, produced, pipe, registered, acc, wstdout,
                    wstderr, result, mail, wrapper_exit >>

\* Read that puts the new data in front of what it has
ReadPrepend(ch) ==
    /\ pc = "communicate"
    /\ CanRead(pipe, registered, ch)
    /\ \E k \in 1..Len(pipe[ch]) :
          /\ acc' = [acc EXCEPT ![ch] = SubSeq(pipe[ch], 1, k) \o @]
          /\ pipe' = [pipe EXCEPT ![ch] = SubSeq(@, k + 1, Len(@))]
    /\ UNCHANGED << pc, argc, restic_binary, env_file, env_vars, cfg_errors,
                    email_config, child, produced, registered, wstdout,
                    wstderr, result, mail, wrapper_exit >>

\* communicate(): os.read on a readable pipe, the data appended to its list
Read(ch) ==
    /\ pc = "communicate"
    /\ CanRead(pipe, registered, ch)
    /\ \E k \in 1..Len(pipe[ch]) :
          /\ acc' = [acc EXCEPT ![ch] = @ \o SubSeq(pipe[ch], 1, k)]
          /\ pipe' = [pipe EXCEPT ![ch] = SubSeq(@, k + 1, Len(@))]
    /\ UNCHANGED << pc, argc, restic_binary, env_file, env_vars, cfg_errors,
                    email_config, child, produced, registered, wstdout,
                    wstderr, result, mail, wrapper_exit >>

\* communicate(): os.read returns b"", the pipe is unregistered and closed
ReadEof(ch) ==
    /\ pc = "communicate"
    /\ AtEof(pipe, registered, child, ch)
    /\ registered' = [registered EXCEPT ![ch] = FALSE]
    /\ UNCHANGED << pc, argc, restic_binary, env_file, env_vars, cfg_errors,
                    email_config, child, produced, pipe, acc, wstdout, wstderr,
                    result, mail, wrapper_exit >>

\* communicate(): no pipe is left, wait() reaps the child
Wait ==
    /\ pc = "communicate"
    /\ \A ch \in Channels : ~registered[ch]
    /\ child.state = "exited"
    /\ child' = [child EXCEPT !.state = "reaped"]
    /\ pc' = "waited"
    /\ UNCHANGED << argc, restic_binary, env_file, env_vars, cfg_errors,
                    email_config, produced, pipe, registered, acc, wstdout,
                    wstderr, result, mail, wrapper_exit >>

\* communicate() decodes what it captured; run_backup returns (lines 211-222)
RunBackupReturn ==
    /\ pc = "waited"
    /\ LET out == Flatten(acc["stdout"])
           err == Flatten(acc["stderr"])
       IN  IF Undecodable(out) \/ Undecodable(err)
           THEN /\ wstdout' = Append(wstdout, MsgLaunchFailed)
                /\ result' = Some([exit_code |-> 1, output |-> MsgLaunchFailed])
           ELSE /\ wstdout' = wstdout \o << MsgCompleted, MsgFinished >>
                /\ result' = Some(ReturnedResult(child.code,
                                                 TranslateNewlines(out),
                                                 TranslateNewlines(err)))
    /\ pc' = "ran"
    /\ UNCHANGED << argc, restic_binary, env_file, env_vars, cfg_errors,
                    email_config, procVars, wstderr, mail, wrapper_exit >>

(***************************************************************************)
(* send_notification and send_email, lines 225-261 and 40-62               *)
(***************************************************************************)
\* line 227: return without sending
SkipNotification ==
    /\ pc = "ran"
    /\ ~ShouldNotify(result[1].exit_code, email_config)
    /\ pc' = "notified"
    /\ UNCHANGED << argc, restic_binary, env_file, env_vars, cfg_errors,
                    email_config, procVars, wstdout, wstderr, result, mail,
                    wrapper_exit >>

\* send_email opens the SMTP connection
SendEmail ==
    /\ pc = "ran"
    /\ ShouldNotify(result[1].exit_code, email_config)
    /\ mail' = [state |-> "attempted", attempts |-> mail.attempts + 1,
                mode |-> TransportMode(email_config[1]),
                body |-> Some(result[1])]
    /\ pc' = "sending"
    /\ UNCHANGED << argc, restic_binary, env_file, env_vars, cfg_errors,
                    email_config, procVars, wstdout, wstderr, result,
                    wrapper_exit >>

\* line 59: the message went out
EmailSent ==
    /\ pc = "sending"
    /\ mail' = [mail EXCEPT !.state = "sent"]
    /\ pc' = "notified"
    /\ UNCHANGED << argc, restic_binary, env_file, env_vars, cfg_errors,
                    email_config, procVars, wstdout, wstderr, result,
                    wrapper_exit >>

\* lines 60-62 and 260-261: the transport raised; logged, nothing else
EmailFailed ==
    /\ pc = "sending"
    /\ mail' = [mail EXCEPT !.state = "failed"]
    /\ wstderr' = wstderr \o << MsgSendFailed, MsgNotSent >>
    /\ pc' = "notified"
    /\ UNCHANGED << argc, restic_binary, env_file, env_vars, cfg_errors,
                    email_config, procVars, wstdout, result, wrapper_exit >>

\* line 292: sys.exit(exit_code)
Exit ==
    /\ pc = "notified"
    /\ wrapper_exit' = Some(ExitStatus(result[1].exit_code))
    /\ pc' = "exited"
    /\ UNCHANGED << argc, restic_binary, env_file, env_vars, cfg_errors,
                    email_config, procVars, wstdout, wstderr, result, mail >>

Next ==
    \/ CheckArgs
    \/ LoadEnv
    \/ GetEmailConfig
    \/ LaunchFails
    \/ Launch
    \/ \E ch \in Channels : ChildWrite(ch)
    \/ ChildExit
    \/ \E ch \in Channels : Read(ch)
    \/ \E ch \in Channels : ReadEof(ch)
    \/ Wait
    \/ RunBackupReturn
    \/ SkipNotification
    \/ SendEmail
    \/ EmailSent
    \/ EmailFailed
    \/ Exit

Spec == Init /\ [][Next]_vars

(***************************************************************************)
(* load_environment_file on every environment file of at most MaxEnvLines  *)
(* lines.                                                                  *)
(***************************************************************************)
EnvLineSet ==
    { << "A", "=", "1" >>,
      << "A", "=", "2" >>,
      << " ", "B", " ", "=", " ", "x", "=", "y", " ", "\n" >>,
      << "B", "=" >>,
      << "#", "A", "=", "1" >>,
      << " ", "\n" >>,
      << "JUNK" >> }

InitEnv ==
    /\ pc = "args_ok"
    /\ argc = 4
    /\ restic_binary = "ok"
    /\ env_file \in
          { File(lines) : lines \in SeqsUpTo(EnvLineSet, MaxEnvLines) }
              \cup {FileMissing}
    /\ Idle

NextEnv == LoadEnv

SpecEnv == InitEnv /\ [][NextEnv]_vars

\* a comment or blank line
IsCommentOrBlank(line) ==
    \/ \A i \in 1..Len(line) : line[i] \in Whitespace
    \/ \E i \in 1..Len(line) :
          /\ line[i] = "#"
          /\ \A j \in 1..(i - 1) : line[j] \in Whitespace

\* a key=value line
IsKeyValue(line) == ~IsCommentOrBlank(line) /\ Contains(line, "=")

\* the text before the first "=" of a key=value line, trimmed
KeyOf(line) ==
    LET i == CHOOSE i \in 1..Len(line) :
                 line[i] = "=" /\ \A j \in 1..(i - 1) : line[j] # "="
    IN  Strip(SubSeq(line, 1, i - 1))

\* the text after the first "=" of a key=value line, trimmed
ValueOf(line) ==
    LET i == CHOOSE i \in 1..Len(line) :
                 line[i] = "=" /\ \A j \in 1..(i - 1) : line[j] # "="
    IN  Strip(SubSeq(line, i + 1, Len(line)))

KeyValueIndexes(lines) == { i \in 1..Len(lines) : IsKeyValue(lines[i]) }

OnlyKeyValueCommentBlank(lines) ==
    \A i \in 1..Len(lines) : IsKeyValue(lines[i]) \/ IsCommentOrBlank(lines[i])

\* C10 as stated: a file of N key=value lines and M comment or blank lines
\* loads into a map of exactly N entries, each value the text after the first
\* "=" of its line.
C10_ExactlyNEntries ==
    (pc = "loaded" /\ OnlyKeyValueCommentBlank(env_file.lines)) =>
        /\ Cardinality(DOMAIN env_vars)
              = Cardinality(KeyValueIndexes(env_file.lines))
        /\ \A i \in KeyValueIndexes(env_file.lines) :
              DictGet(env_vars, KeyOf(env_file.lines[i]))
                  = ValueOf(env_file.lines[i])

\* C10 amended: the map has one entry per distinct key of the key=value lines
\* (so at most N, and N when the keys differ), and each key's value is the
\* trimmed text after the first "=" of the last line that sets it; every
\* other line adds nothing.
C10_OneEntryPerKey ==
    pc = "loaded" =>
        LET lines == env_file.lines
            kv == KeyValueIndexes(lines)
        IN  /\ DOMAIN env_vars = { KeyOf(lines[i]) : i \in kv }
            /\ Cardinality(DOMAIN env_vars) <= Cardinality(kv)
            /\ \A i \in kv :
                  (\A j \in kv : j > i => KeyOf(lines[j]) # KeyOf(lines[i]))
                      => env_vars[KeyOf(lines[i])] = ValueOf(lines[i])

\* a file whose three key=value lines set two keys has been loaded
C10_Witness ==
    /\ pc = "loaded"
    /\ Cardinality(KeyValueIndexes(env_file.lines)) = 3
    /\ Cardinality(DOMAIN env_vars) = 2

(***************************************************************************)
(* get_email_config on the maps loaded from files that leave each e-mail   *)
(* variable out or set it to one of a few values.                          *)
(***************************************************************************)
EnabledValues == { None, Some(<< "true" >>), Some(<< "TRUE" >>),
                   Some(<< "false" >>) }

ToValues == { None, Some(<< >>), Some(Addr),
              Some(Addr \o << ",", " ", "nobody" >>),
              Some(<< "a", "@", "b" >> \o << "," >> \o Addr) }

FromValues == { None, Some(Addr), Some(<< "nobody", ".", "c" >>) }

ServerValues == { Some(<< >>), Some(<< "host" >>) }

PortValues == { Some(<< >>), Some(<< "4", "6", "5" >>), Some(<< "0" >>),
                Some(<< "6", "5", "5", "3", "6" >>), Some(<< "x" >>),
                Some(<< "-", "1" >>) }

UserValues == { None, Some(<< "user" >>) }

PasswordValues == { Some(<< >>), Some(<< "secret" >>) }

TlsValues == { None, Some(<< "true" >>), Some(<< "False" >>),
               Some(<< "yes" >>) }

EmailKeys ==
    << K_ENABLED, K_TO, K_FROM, K_SERVER, K_PORT, K_USER, K_PASSWORD, K_TLS >>

IsSome(x) == x # None

\* the file with one line KEY=value for every EmailKeys[i] that choice[i] sets
EmailFile(choice) ==
    LET all == [i \in 1..Len(EmailKeys) |->
                    IF choice[i] = None THEN None
                    ELSE Some(Assign(EmailKeys[i], choice[i][1]))]
        set == SelectSeq(all, IsSome)
    IN  File([j \in 1..Len(set) |-> set[j][1]])

InitEmail ==
    /\ pc = "args_ok"
    /\ argc = 4
    /\ restic_binary = "ok"
    /\ \E e \in EnabledValues, t \in ToValues, f \in FromValues,
          s \in ServerValues, p \in PortValues, u \in UserValues,
          w \in PasswordValues, l \in TlsValues :
            env_file = EmailFile(<< e, t, f, s, p, u, w, l >>)
    /\ Idle

NextEmail == LoadEnv \/ GetEmailConfig

SpecEmail == InitEmail /\ [][NextEmail]_vars

\* the variable is absent or holds nothing but blanks
IsBlank(env, key) ==
    key \notin DOMAIN env \/ \A i \in 1..Len(env[key]) : env[key][i] \in Whitespace

\* the seven required fields
RequiredFields ==
    { K_TO, K_FROM, K_SERVER, K_PORT, K_USER, K_PASSWORD, K_TLS }

\* the field is blank or malformed, in the words of the claim
Violated(env, key) ==
    \/ IsBlank(env, key)
    \/ /\ key = K_TO
       /\ \E i \in 1..Len(Split(env[key], ",")) :
             ~Contains(Split(env[key], ",")[i], "@")
    \/ key = K_FROM /\ ~Contains(env[key], "@")
    \/ /\ key = K_PORT
       /\ \/ ParseInt(env[key]) = None
          \/ ParseInt(env[key])[1] \notin 1..65535
    \/ key = K_TLS /\ env[key] \notin { << c >> : c \in {"true", "false",
                                    "TRUE", "FALSE", "True", "False"} }

FlagIsTrue(env) ==
    K_ENABLED \in DOMAIN env
        /\ env[K_ENABLED] \in { << "true" >>, << "TRUE" >>, << "True" >> }

\* every field of a returned configuration holds a value
FullyPopulated(config) ==
    /\ config.to_emails # << >>
    /\ \A i \in 1..Len(config.to_emails) : config.to_emails[i] # << >>
    /\ config.from_email # << >>
    /\ config.smtp_server # << >>
    /\ config.smtp_port \in 1..65535
    /\ config.smtp_user # << >>
    /\ config.smtp_password # << >>
    /\ config.use_tls \in BOOLEAN

\* C6: with the enable flag true, any blank or malformed required field makes
\* get_email_config exit 1 after listing every violated field, and a
\* configuration is returned only with no violation, all seven fields set.
C6_AllViolationsListed ==
    (pc \in {"configured", "exited"} /\ FlagIsTrue(env_vars)) =>
        /\ (\E key \in RequiredFields : Violated(env_vars, key)) =>
              /\ pc = "exited"
              /\ wrapper_exit = Some(1)
              /\ email_config = None
              /\ \A key \in RequiredFields :
                    Violated(env_vars, key) =>
                        \E i \in 1..Len(cfg_errors) : cfg_errors[i].field = key
        /\ pc = "configured" =>
              /\ email_config # None
              /\ \A key \in RequiredFields : ~Violated(env_vars, key)
              /\ FullyPopulated(email_config[1])

\* get_email_config has exited on a map with three violated fields
C6_Witness ==
    /\ pc = "exited"
    /\ FlagIsTrue(env_vars)
    /\ Cardinality({ key \in RequiredFields : Violated(env_vars, key) }) = 3
    /\ Len(cfg_errors) >= 3

(***************************************************************************)
(* Properties of a whole run (Spec).                                       *)
(***************************************************************************)
Launched == child.state # "none"

IsChildLine(entry) == entry \in ChildLines

\* the child's lines among what the wrapper wrote to its own stdout or stderr
Forwarded(ch) ==
    SelectSeq(IF ch = "stdout" THEN wstdout ELSE wstderr, IsChildLine)

\* C1: once the child has been launched, the wrapper exits with the child's
\* exit code, whatever became of the notification.
C1_ChildExitCodePropagated ==
    (pc = "exited" /\ child.state = "reaped") =>
        wrapper_exit = Some(child.code)

\* C2: the combined output run_backup returns is every stdout line in the
\* order written, then every stderr line in the order written, unaltered.
C2_StdoutThenStderr ==
    (result # None /\ child.state = "reaped") =>
        result[1].output
            = Flatten(produced["stdout"]) \o Flatten(produced["stderr"])

\* the child has terminated and communicate() holds all of its output
Collected ==
    Launched =>
        /\ child.state = "reaped"
        /\ \A ch \in Channels :
              child.todo[ch] = << >> /\ pipe[ch] = << >> /\ acc[ch] = produced[ch]

\* C3: when the child exits non-zero and a validated configuration is present,
\* the notification is attempted exactly once (not sent, attempted, then sent
\* or failed; never again), after the child has terminated and its output is
\* collected, and before the wrapper exits.
C3_NotifiedExactlyOnce ==
    /\ mail.attempts <= 1
    /\ mail.state = "not_sent" <=> mail.attempts = 0
    /\ mail.state = "attempted" <=> pc = "sending"
    /\ mail.attempts = 1 => (result # None /\ Collected)
    /\ mail.state = "attempted" => wrapper_exit = None
    /\ (pc = "exited" /\ Launched /\ child.code # 0 /\ email_config # None) =>
          (mail.attempts = 1 /\ mail.state \in {"sent", "failed"})

\* the wrapper has exited after a child that exited 3 and a failed transport
C3_Witness ==
    /\ pc = "exited"
    /\ child.state = "reaped"
    /\ child.code = 3
    /\ email_config # None
    /\ mail.state = "failed"

\* C4: a transport attempt is made only when the enable flag is true and the
\* child's exit code is not 0; with the flag absent or false validation cannot
\* fail and nothing is attempted.
C4_NotifyOnlyEnabledFailure ==
    /\ mail.attempts > 0 =>
          (FlagIsTrue(env_vars) /\ (Launched => child.code # 0))
    /\ ~FlagIsTrue(env_vars) => (cfg_errors = << >> /\ mail.attempts = 0)

\* the file holds a line that is no comment, not blank and no key=value line
HasMalformedLine(file) ==
    \E i \in 1..Len(file.lines) :
        ~IsCommentOrBlank(file.lines[i]) /\ ~IsKeyValue(file.lines[i])

\* notifications are enabled and a required field is blank or malformed
InvalidEmailField ==
    /\ pc \notin {"start", "args_ok"}
    /\ FlagIsTrue(env_vars)
    /\ \E key \in RequiredFields : Violated(env_vars, key)

\* no subprocess was launched, nor a launch tried, nor a notification
NothingLaunched ==
    /\ child.state = "none"
    /\ result = None
    /\ mail.attempts = 0
    /\ \A i \in 1..Len(wstdout) : wstdout[i] # MsgExecuting

ExitsOneBeforeLaunch ==
    /\ NothingLaunched
    /\ pc \notin {"start", "args_ok", "loaded"} =>
          (pc = "exited" /\ wrapper_exit = Some(1))

\* C5 as stated: an environment file that is missing or malformed, or an
\* invalid e-mail field with notifications enabled, ends the run with exit
\* code 1 before any subprocess is launched.
C5_MalformedFileIsFatal ==
    (env_file.state # "ok" \/ HasMalformedLine(env_file) \/ InvalidEmailField)
        => ExitsOneBeforeLaunch

\* C5 amended: an environment file that is missing or cannot be read, or an
\* invalid e-mail field with notifications enabled, ends the run with exit
\* code 1 before any subprocess is launched and without a notification (a
\* line of the file that is no key=value line is skipped, not an error).
C5_UnreadableFileIsFatal ==
    (env_file.state # "ok" \/ InvalidEmailField) => ExitsOneBeforeLaunch

\* the run has ended on the listing of the invalid e-mail fields
C5_Witness ==
    /\ pc = "exited"
    /\ argc = 4
    /\ env_file = FileInvalid
    /\ Len(cfg_errors) = 2
    /\ wrapper_exit = Some(1)

CountOf(sink, msg) == Cardinality({ i \in 1..Len(sink) : sink[i] = msg })

\* C7: when the child cannot be created, run_backup returns exit code 1 with
\* the error message as output, the launch is tried once, the notification
\* path runs on that result and the wrapper exits 1.
C7_LaunchFailureIsBackupFailure ==
    restic_binary = "missing" =>
        /\ child.state = "none"
        /\ CountOf(wstdout, MsgExecuting) <= 1
        /\ pc \in {"ran", "sending", "notified"} => result # None
        /\ result # None =>
              result[1] = [exit_code |-> 1, output |-> MsgLaunchFailed]
        /\ pc \in {"notified", "exited"} /\ CountOf(wstdout, MsgExecuting) = 1 =>
              /\ result # None
              /\ email_config # None =>
                    (mail.attempts = 1 /\ mail.body = result)
              /\ email_config = None => mail.attempts = 0
        /\ pc = "exited" /\ CountOf(wstdout, MsgExecuting) = 1 =>
              wrapper_exit = Some(1)

\* the wrapper has exited after a failed launch and a notification
C7_Witness ==
    /\ pc = "exited"
    /\ restic_binary = "missing"
    /\ result # None
    /\ mail.state = "sent"
    /\ wrapper_exit = Some(1)

InitLive ==
    /\ pc = "configured"
    /\ argc = 4
    /\ restic_binary = "ok"
    /\ env_file = FileJunk
    /\ env_vars = load_environment_file(FileJunk)[1]
    /\ cfg_errors = << >>
    /\ email_config = None
    /\ child = NoChild
    /\ produced = [ch \in Channels |-> << >>]
    /\ pipe = [ch \in Channels |-> << >>]
    /\ registered = [ch \in Channels |-> FALSE]
    /\ acc = [ch \in Channels |-> << >>]
    /\ wstdout = << >>
    /\ wstderr = << >>
    /\ result = None
    /\ mail = NoMail
    /\ wrapper_exit = None

ChildStep == (\E ch \in Channels : ChildWrite(ch)) \/ ChildExit

RunBackupStep ==
    \/ Launch
    \/ \E ch \in Channels : Read(ch)
    \/ \E ch \in Channels : ReadEof(ch)
    \/ Wait
    \/ RunBackupReturn

NextLive == ChildStep \/ RunBackupStep

\* the operating system keeps running a process that can take a step
SpecLive ==
    InitLive /\ [][NextLive]_vars /\ WF_vars(ChildStep) /\ WF_vars(RunBackupStep)

\* C9: draining the two channels cannot deadlock: once the child is launched
\* run_backup returns, however the output is split between stdout and stderr
\* and with a pipe that holds PipeCap lines; and the combined output exists
\* only after both channels reached end-of-file and the child was reaped.
C9_DrainsAndReturns ==
    /\ [](result # None =>
            (Collected /\ \A ch \in Channels : ~registered[ch]))
    /\ (pc = "communicate") ~> (result # None)

\* run_backup has returned from a child that wrote more to stderr than the
\* pipe holds and nothing to stdout
C9_Witness ==
    /\ result # None
    /\ produced["stdout"] = << >>
    /\ Len(produced["stderr"]) > PipeCap

=============================================================================
